---- MODULE Spec2Model ----
(***************************************************************************)
(* Model of src/src/llm_evaluator.py: LLMEvaluator.evaluate_papers (the    *)
(* thread pool fan-out, the collecting loop, the threshold filter and the  *)
(* final sort), LLMEvaluator._evaluate_single_paper (the retry loop around *)
(* the remote call) and LLMEvaluator._parse_response (the regex cascade).  *)
(*                                                                         *)
(* Texts are sequences of one-character strings.  A float that the code    *)
(* obtains with float() from a decimal literal is the exact decimal        *)
(* [n |-> numerator, d |-> power of ten], kept normalised.                 *)
(***************************************************************************)
EXTENDS Integers, Sequences, FiniteSets, TLC

(***************************************************************************)
(* Characters and the character classes of Python's re module.            *)
(***************************************************************************)
UpperSeq == <<"A","B","C","D","E","F","G","H","I","J","K","L","M",
              "N","O","P","Q","R","S","T","U","V","W","X","Y","Z">>

LowerSeq == <<"a","b","c","d","e","f","g","h","i","j","k","l","m",
              "n","o","p","q","r","s","t","u","v","w","x","y","z">>

DigitSeq == <<"0","1","2","3","4","5","6","7","8","9">>

UpperSet == {UpperSeq[k] : k \in 1..26}

LetterSet == UpperSet \cup {LowerSeq[k] : k \in 1..26}

DigitSet == {DigitSeq[k] : k \in 1..10}

LowerOf == [c \in UpperSet |-> LowerSeq[CHOOSE k \in 1..26 : UpperSeq[k] = c]]

DigitValOf == [c \in DigitSet |-> (CHOOSE k \in 1..10 : DigitSeq[k] = c) - 1]

\* str.lower() of one character (re.IGNORECASE compares case-folded)
Lower(c) == IF c \in UpperSet THEN LowerOf[c] ELSE c

\* \d
IsDigit(c) == c \in DigitSet

DigitVal(c) == DigitValOf[c]

\* \s   (the newline is the one-character string "\n")
IsSpace(c) == c \in {" ", "\n", "\t", "\r"}

\* \w
IsWord(c) == c \in DigitSet \/ c = "_" \/ c \in LetterSet

\* s[i:j] of Python with 1-based inclusive bounds; empty when j < i
Slice(s, i, j) == [k \in 1..(IF j >= i THEN j - i + 1 ELSE 0) |-> s[i + k - 1]]

\* s[:n]
Prefix(s, n) == Slice(s, 1, IF Len(s) < n THEN Len(s) ELSE n)

\* does the literal lit (lower case) occur at position i of s, ignoring case
LitAtCI(s, i, lit) ==
  /\ i >= 1
  /\ i + Len(lit) - 1 <= Len(s)
  /\ \A k \in 1..Len(lit) : Lower(s[i + k - 1]) = lit[k]

\* does the literal lit occur at position i of s, case-sensitively
LitAt(s, i, lit) ==
  /\ i >= 1
  /\ i + Len(lit) - 1 <= Len(s)
  /\ \A k \in 1..Len(lit) : s[i + k - 1] = lit[k]

\* first position >= i of s that is not in the class P, Len(s)+1 if none
RECURSIVE SkipSpace(_, _)
SkipSpace(s, i) ==
  IF i <= Len(s) /\ IsSpace(s[i]) THEN SkipSpace(s, i + 1) ELSE i

RECURSIVE SkipDigits(_, _)
SkipDigits(s, i) ==
  IF i <= Len(s) /\ IsDigit(s[i]) THEN SkipDigits(s, i + 1) ELSE i

RECURSIVE SkipSpaceColon(_, _)
SkipSpaceColon(s, i) ==
  IF i <= Len(s) /\ (IsSpace(s[i]) \/ s[i] = ":")
  THEN SkipSpaceColon(s, i + 1) ELSE i

(***************************************************************************)
(* Decimal numbers: float() of a literal matched by \d+\.?\d*              *)
(***************************************************************************)
RECURSIVE Pow10(_)
Pow10(k) == IF k = 0 THEN 1 ELSE 10 * Pow10(k - 1)

RECURSIVE Pow2(_)
Pow2(k) == IF k = 0 THEN 1 ELSE 2 * Pow2(k - 1)

\* the natural number written by the digits s[i..j] (0 for the empty range)
RECURSIVE DigitsVal(_, _, _)
DigitsVal(s, i, j) ==
  IF j < i THEN 0 ELSE 10 * DigitsVal(s, i, j - 1) + DigitVal(s[j])

RECURSIVE Normalise(_)
Normalise(q) ==
  IF q.d > 1 /\ q.n % 10 = 0
  THEN Normalise([n |-> q.n \div 10, d |-> q.d \div 10])
  ELSE q

Dec(n, d) == Normalise([n |-> n, d |-> d])

Zero == Dec(0, 1)

\* a >= b, a = b on floats read from decimals
GE(a, b) == a.n * b.d >= b.n * a.d

GT(a, b) == a.n * b.d > b.n * a.d

\* the end (inclusive) of the longest match of \d+\.?\d* starting at i,
\* where s[i] is a digit
NumberEnd(s, i) ==
  LET e1 == SkipDigits(s, i)
      e2 == IF e1 <= Len(s) /\ s[e1] = "." THEN e1 + 1 ELSE e1
  IN  SkipDigits(s, e2) - 1

\* float(s[i..j]) for a literal matched by \d+\.?\d*
FloatOf(s, i, j) ==
  LET e1   == SkipDigits(s, i)
      frac == IF e1 <= j /\ s[e1] = "." THEN j - e1 ELSE 0
  IN  Dec(DigitsVal(s, i, e1 - 1) * Pow10(frac) +
          (IF frac > 0 THEN DigitsVal(s, e1 + 1, j) ELSE 0),
          Pow10(frac))

(***************************************************************************)
(* LLMEvaluator._parse_response: the score cascade.                        *)
(***************************************************************************)
LabelScore == <<"s","c","o","r","e",":">>

LabelScoreWord == <<"s","c","o","r","e">>

LabelRating == <<"r","a","t","i","n","g">>

LabelReason == <<"r","e","a","s","o","n",":">>

\* is position p of s inside the text and a \w character
WordAt(s, p) == p >= 1 /\ p <= Len(s) /\ IsWord(s[p])

\* least element of a non-empty set of integers
MinOf(S) == CHOOSE x \in S : \A y \in S : x <= y

\* Strategy 1: r'SCORE:\s*(\d+\.?\d*)', re.IGNORECASE, matched at position i
\* (\s* is greedy; giving a space back leaves a space where \d is needed)
Score1Start(s, i) == SkipSpace(s, i + Len(LabelScore))

Score1At(s, i) ==
  /\ LitAtCI(s, i, LabelScore)
  /\ Score1Start(s, i) <= Len(s)
  /\ IsDigit(s[Score1Start(s, i)])

\* Strategy 2: r'(?:score|rating)[\s:]+(\d+\.?\d*)', re.IGNORECASE
Score2Sep(s, i) ==
  IF LitAtCI(s, i, LabelScoreWord) THEN i + Len(LabelScoreWord)
  ELSE i + Len(LabelRating)

Score2Start(s, i) == SkipSpaceColon(s, Score2Sep(s, i))

Score2At(s, i) ==
  /\ LitAtCI(s, i, LabelScoreWord) \/ LitAtCI(s, i, LabelRating)
  /\ Score2Start(s, i) > Score2Sep(s, i)
  /\ Score2Start(s, i) <= Len(s)
  /\ IsDigit(s[Score2Start(s, i)])

\* Strategy 3: r'\b([0-9]|10)(?:\.\d+)?\b'.  After the group, at position p:
\* either a fraction "." \d+ ending at a word boundary, or a word boundary at p
\* (between two digits there is no boundary, so \d+ cannot give digits back)
Score3Tail(s, p) ==
  \/ /\ p <= Len(s)
     /\ s[p] = "."
     /\ SkipDigits(s, p + 1) > p + 1
     /\ ~WordAt(s, SkipDigits(s, p + 1))
  \/ ~WordAt(s, p)

Score3One(s, i) ==
  /\ i <= Len(s)
  /\ IsDigit(s[i])
  /\ ~WordAt(s, i - 1)
  /\ Score3Tail(s, i + 1)

Score3Ten(s, i) ==
  /\ LitAt(s, i, <<"1", "0">>)
  /\ ~WordAt(s, i - 1)
  /\ Score3Tail(s, i + 2)

Score3At(s, i) == Score3One(s, i) \/ Score3Ten(s, i)

\* float(num_match.group(1)): the alternative [0-9] is tried before 10
Score3Group(s, i) == IF Score3One(s, i) THEN DigitVal(s[i]) ELSE 10

\* a cascade that tries the generic label before the SCORE: label
ParseScoreGenericFirst(s) ==
  LET m1 == {i \in 1..Len(s) : Score1At(s, i)}
      m2 == {i \in 1..Len(s) : Score2At(s, i)}
      m3 == {i \in 1..Len(s) : Score3At(s, i)}
  IN  IF m2 # {}
      THEN LET g == Score2Start(s, MinOf(m2)) IN FloatOf(s, g, NumberEnd(s, g))
      ELSE IF m1 # {}
      THEN LET g == Score1Start(s, MinOf(m1)) IN FloatOf(s, g, NumberEnd(s, g))
      ELSE IF m3 # {}
      THEN Dec(Score3Group(s, MinOf(m3)), 1)
      ELSE Zero

\* the score of _parse_response (lines 255-287)
ParseScore(s) ==
  LET m1 == {i \in 1..Len(s) : Score1At(s, i)}
      m2 == {i \in 1..Len(s) : Score2At(s, i)}
      m3 == {i \in 1..Len(s) : Score3At(s, i)}
  IN  IF m1 # {}
      THEN LET g == Score1Start(s, MinOf(m1)) IN FloatOf(s, g, NumberEnd(s, g))
      ELSE IF m2 # {}
      THEN LET g == Score2Start(s, MinOf(m2)) IN FloatOf(s, g, NumberEnd(s, g))
      ELSE IF m3 # {}
      THEN LET potential_score == Dec(Score3Group(s, MinOf(m3)), 1)
           IN  IF GE(potential_score, Zero) /\ GE(Dec(10, 1), potential_score)
               THEN potential_score ELSE Zero
      ELSE Zero

(***************************************************************************)
(* LLMEvaluator._parse_response: the reason.                               *)
(***************************************************************************)
\* str.strip()
RECURSIVE StripLeft(_)
StripLeft(s) ==
  IF Len(s) > 0 /\ IsSpace(s[1]) THEN StripLeft(Tail(s)) ELSE s

RECURSIVE StripRight(_)
StripRight(s) ==
  IF Len(s) > 0 /\ IsSpace(s[Len(s)])
  THEN StripRight(SubSeq(s, 1, Len(s) - 1)) ELSE s

Strip(s) == StripRight(StripLeft(s))

\* r'REASON:\s*(.+?)(?:\n|$)', re.IGNORECASE | re.DOTALL, matched at i: the
\* group needs one character after the label
ReasonAt(s, i) ==
  /\ LitAtCI(s, i, LabelReason)
  /\ i + Len(LabelReason) <= Len(s)

\* where the group starts: after the greedy \s*, which gives its last
\* character back when it ran to the end of the text
ReasonStart(s, i) ==
  LET m == SkipSpace(s, i + Len(LabelReason))
  IN  IF m <= Len(s) THEN m ELSE Len(s)

\* where the lazy group ends: the first position from its start that is
\* followed by a newline or by the end of the text
ReasonEnd(s, g) ==
  MinOf({e \in g..Len(s) : e = Len(s) \/ s[e + 1] = "\n"})

\* re.split(r'[.!?]\s+', content): the start positions of the separators,
\* scanned left to right without overlap
IsSepAt(s, i) ==
  /\ i + 1 <= Len(s)
  /\ s[i] \in {".", "!", "?"}
  /\ IsSpace(s[i + 1])

\* the first separator at or after position i, 0 if none
NextSep(s, i) ==
  LET S == {k \in i..Len(s) : IsSepAt(s, k)}
  IN  IF S = {} THEN 0 ELSE MinOf(S)

\* sentences[1] of the split, given the first separator at position k
SecondSentence(s, k) ==
  LET r  == SkipSpace(s, k + 1)
      k2 == NextSep(s, r)
  IN  IF k2 = 0 THEN Slice(s, r, Len(s)) ELSE Slice(s, r, k2 - 1)

ReasonMax == 100

\* the reason of _parse_response (lines 256, 289-303)
ParseReason(s) ==
  LET m == {i \in 1..Len(s) : ReasonAt(s, i)}
  IN  IF m # {}
      THEN LET g == ReasonStart(s, MinOf(m))
           IN  Strip(Slice(s, g, ReasonEnd(s, g)))
      ELSE IF NextSep(s, 1) # 0
      THEN Prefix(SecondSentence(s, NextSep(s, 1)), ReasonMax)
      ELSE Prefix(s, ReasonMax)

\* _parse_response(content, paper_title) for a str content
ParseResponse(s) == [score |-> ParseScore(s), reason |-> ParseReason(s)]

(***************************************************************************)
(* The engine: configuration, items, the remote scorer, tasks, the pool.   *)
(***************************************************************************)
VARIABLES
  papers,           \* the caller's list of dicts (evaluate_papers' argument)
  remote,           \* remote[p][c]: what the service does on the c-th call for item p
  rng,              \* rng[p][k]: what random.uniform(0, 1) returns the k-th time in p's task
  threshold,        \* self.threshold
  max_workers,      \* self.max_workers
  verbose,          \* self.verbose
  sample_count,     \* self.sample_count
  samples,          \* the numbers of the sample responses printed so far
  prior,            \* how many samples were printed before this run began
  requests,         \* how many requests the remote service has received
  tasks,            \* tasks[p]: the future of item p and the frame of its call
  queue,            \* the executor's work queue (items submitted, not started)
  worker,           \* worker[w]: the item thread w is running, 0 when idle
  pc,               \* where evaluate_papers is
  relevant_papers,  \* the list evaluate_papers builds, sorts and returns
  pbar,             \* the progress count (pbar.n)
  collected         \* the futures as_completed has yielded

\* what one run of evaluate_papers never writes: the service's behaviour,
\* the random draws and the configuration (lines 34-37)
env == <<remote, rng, threshold, max_workers, verbose>>

\* the engine's sample counter and what it has printed
sampling == <<sample_count, samples, prior>>

vars == <<papers, env, sampling, requests, tasks, queue, worker, pc,
          relevant_papers, pbar, collected>>

\* max_retries, base_delay (lines 131-132), the sample bound (line 162),
\* the default threshold (line 19)
max_retries == 5

base_delay == 1

SampleMax == 3

DefaultThreshold == 7

\* the sentinel reasons (lines 192, 202, 205)
RateLimitReason == <<"R","a","t","e"," ","l","i","m","i","t"," ","e","x","c","e","e","d","e","d">>

EvalErrorReason == <<"E","v","a","l","u","a","t","i","o","n"," ","e","r","r","o","r">>

MaxRetriesReason == <<"M","a","x"," ","r","e","t","r","i","e","s"," ","e","x","c","e","e","d","e","d">>

RateLimitResult == [score |-> Zero, reason |-> RateLimitReason]

EvalErrorResult == [score |-> Zero, reason |-> EvalErrorReason]

MaxRetriesResult == [score |-> Zero, reason |-> MaxRetriesReason]

NoResult == [score |-> Zero, reason |-> <<>>]

Items == 1..Len(papers)

Workers == 1..max_workers

(***************************************************************************)
(* The remote scorer, as the code sees it: a call returns a completion     *)
(* whose content is a str or None, or raises.  An exception is a true      *)
(* throttling signal or not (throttle), and its text str(e) contains       *)
(* "rate_limit" or "429" or not (marker).  The service's RateLimitError    *)
(* reads "Error code: 429 - ...", so a throttling signal carries the       *)
(* marker; any other error may carry it by accident, e.g. "... resulted in *)
(* 142945 tokens".                                                         *)
(***************************************************************************)
OkReply(text) ==
  [kind |-> "ok", null |-> FALSE, text |-> text, throttle |-> FALSE, marker |-> FALSE]

NullReply ==
  [kind |-> "ok", null |-> TRUE, text |-> <<>>, throttle |-> FALSE, marker |-> FALSE]

Throttled ==
  [kind |-> "error", null |-> FALSE, text |-> <<>>, throttle |-> TRUE, marker |-> TRUE]

Failed ==
  [kind |-> "error", null |-> FALSE, text |-> <<>>, throttle |-> FALSE, marker |-> FALSE]

FailedWith429 ==
  [kind |-> "error", null |-> FALSE, text |-> <<>>, throttle |-> FALSE, marker |-> TRUE]

\* the reply to the c-th call for item p; a service asked more often than
\* its script is long keeps giving its last reply
ReplyOf(p, c) ==
  IF c <= Len(remote[p]) THEN remote[p][c] ELSE remote[p][Len(remote[p])]

\* response texts of the service
Text9 == <<"S","C","O","R","E",":"," ","9">>

Text9b == <<"R","a","t","i","n","g",":"," ","9",".","0","\n","R","E","A","S","O","N",":"," ","o","k">>

Text7 == <<"s","c","o","r","e"," ","7","\n","R","E","A","S","O","N",":"," ","o","k">>

Text3 == <<"M","a","y","b","e"," ","3","."," ","W","e","a","k">>

Text15 == <<"S","C","O","R","E",":"," ","1","5">>

TextEmpty == <<>>

Responses == {Text9, Text9b, Text7, Text3, Text15, TextEmpty}

\* _parse_response on the service's texts, computed once
ParsedOf == [t \in Responses |-> ParseResponse(t)]

\* lines 156-159: content = response.choices[0].message.content and
\* score, reason = self._parse_response(content, paper['title'])
Parse(content) ==
  IF content \in Responses THEN ParsedOf[content] ELSE ParseResponse(content)

(***************************************************************************)
(* LLMEvaluator._evaluate_single_paper, one item's task.                   *)
(***************************************************************************)
\* resolution of the jitter: random.uniform(0, 1) is one of 0/D .. (D-1)/D
JitterDen == 2

Jitters == 0..(JitterDen - 1)

\* the k-th value random.uniform(0, 1) returns in the task of item p, in
\* units of 1/JitterDen
DrawOf(p, k) == IF k <= Len(rng[p]) THEN rng[p][k] ELSE 0

\* a task before it is submitted
NewTask ==
  [st |-> "unsubmitted", attempt |-> 0, calls |-> 0, delays |-> <<>>,
   result |-> NoResult, seen |-> 0]

\* _build_prompt (lines 214-234) reads paper['title'] and paper['abstract']:
\* a missing key raises KeyError; None formats as text
BuildPromptRaises(paper) == paper.title = "absent" \/ paper.abstract = "absent"

\* paper['title'][:50] (lines 96, 167, 198) raises on a missing or None title
TitleSliceRaises(paper) == paper.title # "str"

\* line 180: "rate_limit" in error_str.lower() or "429" in error_str
IsRateLimit(r) == r.marker

\* the bound of the retry test off by one: attempt < max_retries
MayRetryOffByOne(attempt) == attempt < max_retries

\* line 181: attempt < max_retries - 1
MayRetry(attempt) == attempt < max_retries - 1

\* lines 183-186: base_delay * (2 ** attempt) + random.uniform(0, 1), in
\* units of 1/JitterDen
DelayOf(attempt, j) == base_delay * Pow2(attempt) * JitterDen + j

\* the except clause (lines 176-203) for an exception whose text carries the
\* marker or not
ExceptClause(paper, attempt, marker) ==
  IF marker
  THEN IF MayRetry(attempt)
       THEN [kind |-> "sleep", result |-> NoResult]
       ELSE [kind |-> "return", result |-> RateLimitResult]
  ELSE IF TitleSliceRaises(paper)
       THEN [kind |-> "raise", result |-> NoResult]
       ELSE [kind |-> "return", result |-> EvalErrorResult]

\* does the verbose branch (line 162) run
Samples(v, sc) == v /\ sc < SampleMax

\* one pass of the loop body (lines 135-203) once the call has come back with
\* r, up to the test of line 162: a None content makes re.search raise
\* TypeError inside the try; a parsed response is returned (line 174) or, when
\* the test of line 162 holds, sampled first
Attempt(paper, attempt, r, v, sc) ==
  IF r.kind = "error" THEN ExceptClause(paper, attempt, IsRateLimit(r))
  ELSE IF r.null THEN ExceptClause(paper, attempt, FALSE)
  ELSE IF Samples(v, sc) THEN [kind |-> "sample", result |-> Parse(r.text)]
  ELSE [kind |-> "return", result |-> Parse(r.text)]

\* lines 164-172: the sample text is formatted, which slices the title, and
\* then printed; a title that cannot be sliced raises TypeError inside the
\* try, before anything is printed
SamplePrint(paper, attempt, result) ==
  IF TitleSliceRaises(paper) THEN ExceptClause(paper, attempt, FALSE)
  ELSE [kind |-> "return", result |-> result]

\* the thread of worker w leaves its work item
Release(p) == [w \in Workers |-> IF worker[w] = p THEN 0 ELSE worker[w]]

\* a pool in which a sleeping task stops every thread from starting work
CanStartNoneAsleep(w) ==
  /\ worker[w] = 0
  /\ queue # <<>>
  /\ \A p \in 1..Len(papers) : tasks[p].st # "backoff"

\* a pool that starts a work item whether or not the thread is busy
CanStartUnbounded(w) == queue # <<>>

\* ThreadPoolExecutor: an idle thread takes the oldest queued work item
CanStart(w) == worker[w] = 0 /\ queue # <<>>

\* a worker thread starts the task at the head of the queue: _build_prompt,
\* then the first remote call (attempt 0)
Start(w) ==
  /\ CanStart(w)
  /\ LET p == Head(queue)
     IN  /\ queue' = Tail(queue)
         /\ IF BuildPromptRaises(papers[p])
            THEN /\ tasks' = [tasks EXCEPT ![p].st = "raised"]
                 /\ worker' = worker
                 /\ requests' = requests
            ELSE /\ tasks' = [tasks EXCEPT ![p].st = "calling", ![p].attempt = 0,
                                           ![p].calls = 1]
                 /\ worker' = [worker EXCEPT ![w] = p]
                 /\ requests' = requests + 1
  /\ UNCHANGED <<papers, env, sampling, pc, relevant_papers, pbar, collected>>

\* the frame of a task after one pass of the loop body with outcome o
AfterAttempt(t, o, j) ==
  IF o.kind = "return" THEN [t EXCEPT !.st = "done", !.result = o.result]
  ELSE IF o.kind = "raise" THEN [t EXCEPT !.st = "raised", !.result = NoResult]
  ELSE IF o.kind = "sample" THEN [t EXCEPT !.st = "sample_load", !.result = o.result]
  ELSE [t EXCEPT !.st = "backoff",
                 !.delays = Append(t.delays, DelayOf(t.attempt, j))]

\* where a task's thread stands between two steps of Reply
Stands == {"calling", "sample_load", "sample_store", "sample_print"}

\* the thread of item p runs on to its next switching point.  From "calling":
\* the remote call comes back and the loop body runs up to the test of line
\* 162; the task returns, raises, enters time.sleep(delay) or goes on to the
\* sample.  self.sample_count += 1 (line 163) is a load and a store, and the
\* text printed (line 166) reads the counter again: other threads run in
\* between, nothing in the class locks the counter.
Reply(p) ==
  /\ tasks[p].st \in Stands
  /\ LET t == tasks[p]
         o == IF t.st = "calling"
              THEN Attempt(papers[p], t.attempt, ReplyOf(p, t.calls), verbose,
                           sample_count)
              ELSE SamplePrint(papers[p], t.attempt, t.result)
     IN  /\ sample_count' =
              IF t.st = "sample_store" THEN t.seen + 1 ELSE sample_count
         /\ samples' =
              IF t.st = "sample_print" /\ o.kind = "return"
              THEN Append(samples, sample_count) ELSE samples
         /\ tasks' = [tasks EXCEPT ![p] =
              IF t.st = "sample_load"
              THEN [t EXCEPT !.st = "sample_store", !.seen = sample_count]
              ELSE IF t.st = "sample_store" THEN [t EXCEPT !.st = "sample_print"]
              ELSE AfterAttempt(t, o, DrawOf(p, Len(t.delays) + 1))]
         /\ worker' =
              IF t.st \in {"sample_load", "sample_store"} \/ o.kind \in {"sleep", "sample"}
              THEN worker ELSE Release(p)
  /\ UNCHANGED <<papers, env, prior, requests, queue, pc, relevant_papers, pbar,
                 collected>>

\* time.sleep returns, `continue`: the next attempt's call is issued, or the
\* loop is exhausted and line 205 returns
Wake(p) ==
  /\ tasks[p].st = "backoff"
  /\ IF tasks[p].attempt + 1 < max_retries
     THEN /\ tasks' = [tasks EXCEPT ![p].st = "calling",
                                    ![p].attempt = tasks[p].attempt + 1,
                                    ![p].calls = tasks[p].calls + 1]
          /\ worker' = worker
          /\ requests' = requests + 1
     ELSE /\ tasks' = [tasks EXCEPT ![p].st = "done", ![p].result = MaxRetriesResult]
          /\ worker' = Release(p)
          /\ requests' = requests
  /\ UNCHANGED <<papers, env, sampling, queue, pc, relevant_papers, pbar,
                 collected>>

(***************************************************************************)
(* LLMEvaluator.evaluate_papers, the calling thread.                       *)
(***************************************************************************)
Finished(p) == tasks[p].st \in {"done", "raised"}

\* the filter with > in place of >=
RetainedStrict(score, thr) == GT(score, thr)

\* line 85: result['score'] >= self.threshold
Retained(score, thr) == GE(score, thr)

\* the sort key (line 103)
KeyOf(p) == papers[p].relevance_score

\* an insertion that ignores the keys
InsertFront(sorted, x) == <<x>> \o sorted

\* list.sort(key=..., reverse=True) is a stable sort: x goes behind every
\* element whose key is >= its own
InsertDesc(sorted, x) ==
  LET k == Cardinality({i \in 1..Len(sorted) : GE(KeyOf(sorted[i]), KeyOf(x))})
  IN  SubSeq(sorted, 1, k) \o <<x>> \o SubSeq(sorted, k + 1, Len(sorted))

\* the list left as collected
NoSort(list) == list

RECURSIVE SortDesc(_)
SortDesc(list) ==
  IF list = <<>> THEN <<>>
  ELSE InsertDesc(SortDesc(SubSeq(list, 1, Len(list) - 1)), list[Len(list)])

\* lines 64-72: executor.submit for the next paper of the list; after the
\* last one the as_completed loop (lines 75-80) begins
Submit ==
  /\ pc = "submit"
  /\ \E p \in Items :
       /\ tasks[p].st = "unsubmitted"
       /\ \A q \in 1..(p - 1) : tasks[q].st # "unsubmitted"
       /\ tasks' = [tasks EXCEPT ![p].st = "pending"]
       /\ queue' = Append(queue, p)
       /\ pc' = IF p = Len(papers) THEN "collect" ELSE "submit"
  /\ UNCHANGED <<papers, env, sampling, requests, worker, relevant_papers,
                 pbar, collected>>

\* a loop that writes the result into the item before the threshold test
CollectAttachesAll(p) ==
  /\ pc = "collect"
  /\ p \notin collected
  /\ Finished(p)
  /\ collected' = collected \cup {p}
  /\ pbar' = pbar + 1
  /\ papers' = IF tasks[p].st = "done"
               THEN [papers EXCEPT ![p].scored = TRUE,
                                   ![p].relevance_score = tasks[p].result.score,
                                   ![p].relevance_reason = tasks[p].result.reason]
               ELSE papers
  /\ relevant_papers' =
       IF tasks[p].st = "done" /\ Retained(tasks[p].result.score, threshold)
       THEN Append(relevant_papers, p) ELSE relevant_papers
  /\ pc' = IF tasks[p].st = "raised" /\ TitleSliceRaises(papers[p])
           THEN "unwinding" ELSE pc
  /\ UNCHANGED <<env, sampling, requests, tasks, queue, worker>>

\* lines 80-99: as_completed yields a finished future; future.result()
\* returns the task's dict or re-raises its exception; the except clause
\* prints paper['title'][:50]; finally pbar.update(1)
Collect(p) ==
  /\ pc = "collect"
  /\ p \notin collected
  /\ Finished(p)
  /\ collected' = collected \cup {p}
  /\ pbar' = pbar + 1
  /\ IF tasks[p].st = "done" /\ Retained(tasks[p].result.score, threshold)
     THEN /\ papers' = [papers EXCEPT ![p].scored = TRUE,
                           ![p].relevance_score = tasks[p].result.score,
                           ![p].relevance_reason = tasks[p].result.reason]
          /\ relevant_papers' = Append(relevant_papers, p)
     ELSE UNCHANGED <<papers, relevant_papers>>
  /\ pc' = IF tasks[p].st = "raised" /\ TitleSliceRaises(papers[p])
           THEN "unwinding" ELSE pc
  /\ UNCHANGED <<env, sampling, requests, tasks, queue, worker>>

\* a return that indexes the first element of the sorted list
ReturnFailsOnEmpty ==
  /\ pc = "collect"
  /\ collected = Items
  /\ relevant_papers' = SortDesc(relevant_papers)
  /\ pc' = IF relevant_papers = <<>> THEN "raised" ELSE "returned"
  /\ UNCHANGED <<papers, env, sampling, requests, tasks, queue, worker, pbar,
                 collected>>

\* lines 101-107: the loop is over, the list is sorted in place and returned
Return ==
  /\ pc = "collect"
  /\ collected = Items
  /\ relevant_papers' = SortDesc(relevant_papers)
  /\ pc' = "returned"
  /\ UNCHANGED <<papers, env, sampling, requests, tasks, queue, worker, pbar,
                 collected>>

\* an exception leaves the loop: the with-block of the executor waits for
\* every submitted task (shutdown(wait=True)), then evaluate_papers raises
Unwind ==
  /\ pc = "unwinding"
  /\ \A p \in Items : Finished(p)
  /\ pc' = "raised"
  /\ UNCHANGED <<papers, env, sampling, requests, tasks, queue, worker,
                 relevant_papers, pbar, collected>>

\* an item as the caller hands it in
Paper(title, abstract) ==
  [title |-> title, abstract |-> abstract, scored |-> FALSE,
   relevance_score |-> Zero, relevance_reason |-> <<>>]

\* bound: evaluate_papers is called again while fewer samples than this have
\* been printed
MaxSamples == 4

\* evaluate_papers has returned or raised and the caller calls it again on
\* the same engine, with a fresh list of the same items: everything the call
\* creates starts anew, self.sample_count keeps its value (line 38 runs in
\* __init__ only)
Rerun ==
  /\ pc \in {"returned", "raised"}
  /\ Len(samples) < MaxSamples
  /\ papers' = [p \in Items |-> Paper(papers[p].title, papers[p].abstract)]
  /\ requests' = 0
  /\ tasks' = [p \in Items |-> NewTask]
  /\ queue' = <<>>
  /\ worker' = [w \in Workers |-> 0]
  /\ pc' = (IF Len(papers) = 0 THEN "collect" ELSE "submit")
  /\ relevant_papers' = <<>>
  /\ pbar' = 0
  /\ collected' = {}
  /\ prior' = Len(samples)
  /\ UNCHANGED <<env, sample_count, samples>>

Next ==
  \/ Submit
  \/ \E w \in Workers : Start(w)
  \/ \E p \in Items : Reply(p)
  \/ \E p \in Items : Wake(p)
  \/ \E p \in Items : Collect(p)
  \/ Return
  \/ Unwind
  \/ Rerun

(***************************************************************************)
(* Inputs.                                                                 *)
(***************************************************************************)
\* the exceptions the code retries (their text carries the marker)
Retried == {Throttled, FailedWith429}

\* the replies that end a task at once
Terminals == {OkReply(Text9b), OkReply(Text3), OkReply(TextEmpty), NullReply, Failed}

\* every course of one task: up to max_retries - 1 retried errors and then a
\* terminal reply, or max_retries retried errors
TaskScripts ==
  UNION {{pre \o <<term>> : pre \in [1..k -> Retried], term \in Terminals} :
           k \in 0..(max_retries - 1)}
  \cup [1..max_retries -> Retried]

\* the number of sleeps a course leads to
SleepsOf(script) ==
  IF Len(script) < max_retries THEN Len(script) - 1 ELSE max_retries - 1

InitEngine ==
  /\ sample_count = 0
  /\ samples = <<>>
  /\ prior = 0
  /\ requests = 0
  /\ tasks = [p \in Items |-> NewTask]
  /\ queue = <<>>
  /\ worker = [w \in Workers |-> 0]
  /\ pc = (IF Len(papers) = 0 THEN "collect" ELSE "submit")
  /\ relevant_papers = <<>>
  /\ pbar = 0
  /\ collected = {}

TaskPapers ==
  {Paper("str", "str"), Paper("null", "str"), Paper("absent", "str"),
   Paper("str", "absent")}

\* one item, one worker: every course of a single task
InitTask ==
  /\ papers \in {<<x>> : x \in TaskPapers}
  /\ remote \in {<<sc>> : sc \in TaskScripts}
  /\ rng \in {<<js>> : js \in [1..SleepsOf(remote[1]) -> Jitters]}
  /\ threshold = Dec(DefaultThreshold, 1)
  /\ max_workers = 1
  /\ verbose \in BOOLEAN
  /\ InitEngine

SpecTask == InitTask /\ [][Next]_vars

\* bounds of the batch
MaxPapers == 3

MaxWorkers == 2

\* the items of a batch with what the service does for each
PoolCases ==
  { [paper |-> Paper("str", "str"),    script |-> <<OkReply(Text9)>>],
    [paper |-> Paper("str", "str"),    script |-> <<Throttled, OkReply(Text9b)>>],
    [paper |-> Paper("str", "str"),    script |-> <<OkReply(Text7)>>],
    [paper |-> Paper("str", "str"),    script |-> <<OkReply(Text3)>>],
    [paper |-> Paper("str", "str"),    script |-> <<Failed>>],
    [paper |-> Paper("null", "str"),   script |-> <<Failed>>],
    [paper |-> Paper("str", "absent"), script |-> <<Failed>>] }

Batches == UNION {[1..n -> PoolCases] : n \in 0..MaxPapers}

Init ==
  /\ \E b \in Batches :
       /\ papers = [p \in 1..Len(b) |-> b[p].paper]
       /\ remote = [p \in 1..Len(b) |-> b[p].script]
       /\ rng = [p \in 1..Len(b) |-> [k \in 1..SleepsOf(b[p].script) |-> JitterDen - 1]]
  /\ threshold = Dec(DefaultThreshold, 1)
  /\ max_workers \in 1..MaxWorkers
  /\ verbose = FALSE
  /\ InitEngine

Spec == Init /\ [][Next]_vars

\* the pieces response texts are put together from: the labels the parser
\* looks for, separators, digits and a letter
Tokens ==
  { <<"S","C","O","R","E",":">>, <<"s","c","o","r","e">>,
    <<"r","a","t","i","n","g">>, <<"R","E","A","S","O","N",":">>,
    <<" ">>, <<":">>, <<"\n">>, <<".">>, <<"0">>, <<"1">>, <<"7">>, <<"x">> }

\* bound: the number of pieces of a response text
MaxTokens == 3

RECURSIVE Flatten(_)
Flatten(ts) == IF ts = <<>> THEN <<>> ELSE Head(ts) \o Flatten(Tail(ts))

TokenTexts == {Flatten(ts) : ts \in UNION {[1..n -> Tokens] : n \in 0..MaxTokens}}

\* longer responses: a well-formed one, prose with a number in it, and two
\* with a bare label before the SCORE: label
TextWellFormed ==
  <<"S","C","O","R","E",":"," ","8",".","5","\n","R","E","A","S","O","N",":"," ",
    "D","i","r","e","c","t","l","y"," ","e","x","t","e","n","d","s"," ",
    "p","r","i","o","r"," ","w","o","r","k",".">>

TextProse ==
  <<"T","h","i","s"," ","p","a","p","e","r"," ","d","i","s","c","u","s","s","e","s"," ",
    "7"," ","r","e","l","e","v","a","n","t"," ","p","o","i","n","t","s"," ",
    "a","b","o","u","t"," ","t","r","a","n","s","f","o","r","m","e","r","s",".">>

TextTwoLabels ==
  <<"r","a","t","i","n","g"," ","3"," ","S","C","O","R","E",":","8">>

TextNumberFirst ==
  <<"4"," ","s","c","o","r","e"," ","6">>

ExampleTexts == {TextWellFormed, TextProse, TextTwoLabels, TextNumberFirst}

ParseTexts == TokenTexts \cup ExampleTexts

\* one item whose call is answered with a text, next to a throttled call and
\* a failing call for an item without a usable title
ParseCases ==
  {[paper |-> Paper("str", "str"), script |-> <<OkReply(t)>>] : t \in ParseTexts}
  \cup { [paper |-> Paper("str", "str"),  script |-> <<Throttled, OkReply(TextEmpty)>>],
         [paper |-> Paper("null", "str"), script |-> <<Failed>>] }

\* one item, one worker: every response text
InitParse ==
  /\ \E c \in ParseCases :
       /\ papers = <<c.paper>>
       /\ remote = <<c.script>>
       /\ rng = <<[k \in 1..SleepsOf(c.script) |-> 0]>>
  /\ threshold = Dec(DefaultThreshold, 1)
  /\ max_workers = 1
  /\ verbose = FALSE
  /\ InitEngine

SpecParse == InitParse /\ [][Next]_vars

\* the items of a batch on a verbose engine with what the service does for
\* each
VerboseCases ==
  { [paper |-> Paper("str", "str"),  script |-> <<OkReply(Text9)>>],
    [paper |-> Paper("str", "str"),  script |-> <<Throttled, OkReply(Text9b)>>],
    [paper |-> Paper("null", "str"), script |-> <<OkReply(Text9)>>] }

VerboseBatches == UNION {[1..n -> VerboseCases] : n \in 1..MaxPapers}

\* a verbose engine: the pool with sampling on
InitVerbose ==
  /\ \E b \in VerboseBatches :
       /\ papers = [p \in 1..Len(b) |-> b[p].paper]
       /\ remote = [p \in 1..Len(b) |-> b[p].script]
       /\ rng = [p \in 1..Len(b) |-> [k \in 1..SleepsOf(b[p].script) |-> 0]]
  /\ threshold = Dec(DefaultThreshold, 1)
  /\ max_workers \in 1..MaxWorkers
  /\ verbose = TRUE
  /\ InitEngine

SpecVerbose == InitVerbose /\ [][Next]_vars

(***************************************************************************)
(* State functions used by the properties.                                 *)
(***************************************************************************)
\* the items whose remote call is in flight
InFlight == {p \in Items : tasks[p].st = "calling"}

\* the items whose task a worker thread is executing
Running == {p \in Items : tasks[p].st \in Stands \cup {"backoff"}}

\* the items in the executor's work queue
Queued == {queue[i] : i \in 1..Len(queue)}

\* has the c-th call of item p come back and been handled
Handled(p, c) == c < tasks[p].calls \/ (c = tasks[p].calls /\ tasks[p].st # "calling")

\* the call of item p was answered with a text and the task has returned
Answered(p) ==
  /\ tasks[p].st = "done"
  /\ ReplyOf(p, tasks[p].calls).kind = "ok"
  /\ ~ReplyOf(p, tasks[p].calls).null

\* the text the task of item p parsed
ContentOf(p) == ReplyOf(p, tasks[p].calls).text

\* the service throttles every call for item p
AllThrottled(p) ==
  /\ Len(remote[p]) = 5
  /\ \A c \in 1..5 : remote[p][c].throttle

\* the service throttles the first 4 calls for item p and answers the 5th
\* with a text
FourThrottledThenOk(p) ==
  /\ Len(remote[p]) = 5
  /\ \A c \in 1..4 : remote[p][c].throttle
  /\ remote[p][5].kind = "ok"
  /\ ~remote[p][5].null

\* the items whose task resolved to a score at or above the threshold
Qualifying ==
  {p \in Items : tasks[p].st = "done" /\ GE(tasks[p].result.score, threshold)}

Returned == {relevant_papers[i] : i \in 1..Len(relevant_papers)}

\* the items of S in the order of the input list
RECURSIVE InInputOrder(_, _)
InInputOrder(S, n) ==
  IF n = 0 THEN <<>>
  ELSE IF n \in S THEN Append(InInputOrder(S, n - 1), n)
  ELSE InInputOrder(S, n - 1)

\* what evaluate_papers returns when the tasks are collected in the order of
\* the input list
InputOrderOutput == SortDesc(InInputOrder(Qualifying, Len(papers)))

\* two of the returned items have equal scores
HasTie ==
  \E i, j \in 1..Len(relevant_papers) :
    i # j /\ KeyOf(relevant_papers[i]) = KeyOf(relevant_papers[j])

(***************************************************************************)
(* Properties.                                                             *)
(***************************************************************************)
\* C1: when every remote call of a task is throttled, the task issues 5
\* calls and no 6th, does not raise, and resolves to score 0.0 with reason
\* "Rate limit exceeded".
C1_ThrottlingExhausted ==
  \A p \in Items :
    AllThrottled(p) /\ tasks[p].calls >= 1 =>
      /\ tasks[p].calls <= 5
      /\ requests <= 5
      /\ tasks[p].st # "raised"
      /\ tasks[p].st = "done" =>
           tasks[p].calls = 5 /\ tasks[p].result = RateLimitResult

C1_Witness ==
  \E p \in Items :
    /\ AllThrottled(p)
    /\ tasks[p].st = "done"
    /\ tasks[p].calls = 5
    /\ Len(tasks[p].delays) = 4

C3_OtherFailureResolvesAtOnce ==
  \A p \in Items : \A c \in 1..tasks[p].calls :
    (/\ ReplyOf(p, c).kind = "error"
     /\ ~ReplyOf(p, c).throttle
     /\ Handled(p, c)) =>
      /\ tasks[p].calls = c
      /\ tasks[p].st = "done"
      /\ tasks[p].result = EvalErrorResult
      /\ Len(tasks[p].delays) = c - 1

\* C4: at most max_workers scoring calls are in flight and at most
\* max_workers tasks are being executed; the worker threads hold exactly the
\* executing tasks, and every other unfinished submitted task is in the
\* queue and has not started (no call issued).
C4_ConcurrencyBound ==
  /\ Cardinality(InFlight) <= max_workers
  /\ Cardinality(Running) <= max_workers
  /\ Running = {worker[w] : w \in Workers} \ {0}
  /\ \A p \in Items :
       tasks[p].st = "pending" =>
         p \in Queued /\ tasks[p].calls = 0 /\ tasks[p].delays = <<>>
  /\ \A p \in Queued : tasks[p].st = "pending"

C4_Witness ==
  /\ Len(papers) > max_workers
  /\ max_workers >= 2
  /\ Cardinality(InFlight) = max_workers
  /\ queue # <<>>

\* C5: the returned sequence holds exactly the items whose task resolved to a
\* score >= threshold, each once, each with relevance_score >= threshold and
\* with the score and reason of its own task.
C5_FilterExact ==
  pc = "returned" =>
    /\ Returned = Qualifying
    /\ Len(relevant_papers) = Cardinality(Qualifying)
    /\ \A p \in Returned :
         /\ papers[p].scored
         /\ GE(papers[p].relevance_score, threshold)
         /\ papers[p].relevance_score = tasks[p].result.score
         /\ papers[p].relevance_reason = tasks[p].result.reason

C5_Witness ==
  /\ pc = "returned"
  /\ \E p \in Returned : papers[p].relevance_score = threshold
  /\ \E p \in Items \ Returned :
       tasks[p].st = "done" /\ GT(tasks[p].result.score, Zero)

\* C6: the returned sequence is sorted by relevance_score, non-increasing.
C6_SortedDescending ==
  pc = "returned" =>
    \A i \in 1..(Len(relevant_papers) - 1) :
      GE(KeyOf(relevant_papers[i]), KeyOf(relevant_papers[i + 1]))

C6_Witness ==
  /\ pc = "returned"
  /\ Len(relevant_papers) = 3
  /\ GT(KeyOf(relevant_papers[1]), KeyOf(relevant_papers[3]))
  /\ relevant_papers[1] > relevant_papers[3]

\* C7 as stated: the returned sequence is the same for every order in which
\* the tasks complete, i.e. it is the one obtained when the tasks are
\* collected in the order of the input list, ties included.
C7_DeterministicOutput ==
  pc = "returned" => relevant_papers = InputOrderOutput

\* C7 as amended: for every completion order the returned sequence has the
\* same items and the same sequence of scores, and it is the same sequence
\* whenever no two returned items have equal scores.
C7_DeterministicUpToTies ==
  pc = "returned" =>
    /\ Returned = {InputOrderOutput[i] : i \in 1..Len(InputOrderOutput)}
    /\ Len(relevant_papers) = Len(InputOrderOutput)
    /\ \A i \in 1..Len(relevant_papers) :
         KeyOf(relevant_papers[i]) = KeyOf(InputOrderOutput[i])
    /\ ~HasTie => relevant_papers = InputOrderOutput

C7_Witness ==
  /\ pc = "returned"
  /\ Len(relevant_papers) = 3
  /\ HasTie
  /\ relevant_papers # InputOrderOutput

\* C8: evaluate_papers never aborts the batch because of one item's failure:
\* it does not raise, and when it returns it has collected every item.
C8_BatchNeverAborts ==
  /\ pc \notin {"unwinding", "raised"}
  /\ pc = "returned" => collected = Items /\ pbar = Len(papers)

\* C9: _evaluate_single_paper never raises, so future.result() never raises
\* in the collecting loop.
C9_TaskNeverRaises == \A p \in Items : tasks[p].st # "raised"

\* C10: with an empty item list evaluate_papers issues no remote call, does
\* not raise, and returns an empty sequence.
C10_EmptyBatch ==
  Len(papers) = 0 =>
    /\ pc \in {"collect", "returned"}
    /\ requests = 0
    /\ relevant_papers = <<>>

C10_Witness == Len(papers) = 0 /\ pc = "returned"

(***************************************************************************)
(* C11: for every response text the score of a result lies in [0, 10]:     *)
(* the score a task returns, and the relevance_score of a returned item.   *)
(***************************************************************************)
Ten == Dec(10, 1)

\* C11: every returned score and every attached relevance_score is in [0, 10]
C11_ScoreInRange ==
  \A p \in Items :
    /\ tasks[p].st = "done" =>
          GE(tasks[p].result.score, Zero) /\ GE(Ten, tasks[p].result.score)
    /\ papers[p].scored =>
          GE(papers[p].relevance_score, Zero) /\ GE(Ten, papers[p].relevance_score)

(***************************************************************************)
(* C12: evaluate_papers never mutates the caller's items: during a call    *)
(* every item of the list keeps its title, abstract and fields, and no     *)
(* field is added to it.                                                   *)
(***************************************************************************)
InCall == pc \notin {"returned", "raised"}

\* C12: no step of a call changes an item of the caller's list
C12_CallerItemsUntouched == [][InCall => papers' = papers]_vars

\* C12 as amended: a call never changes the title or the abstract of an
\* item; it adds relevance_score and relevance_reason to the caller's own
\* item exactly when it retains it (result at or above the threshold), with
\* the item's own result, and leaves every other item as it was.
C12_OnlyRetainedItemsAugmented ==
  [][InCall =>
       \A p \in Items :
         /\ papers'[p].title = papers[p].title
         /\ papers'[p].abstract = papers[p].abstract
         /\ papers'[p] # papers[p] =>
              /\ tasks[p].st = "done"
              /\ Retained(tasks[p].result.score, threshold)
              /\ papers'[p].relevance_score = tasks[p].result.score
              /\ papers'[p].relevance_reason = tasks[p].result.reason
              /\ relevant_papers' = Append(relevant_papers, p)]_vars

C12_Witness ==
  /\ pc = "returned"
  /\ \E p, q \in Items :
       /\ papers[p].scored
       /\ tasks[q].st = "done" /\ ~papers[q].scored

(***************************************************************************)
(* C13: _parse_response never fails on a malformed text, and for a text    *)
(* from which nothing can be extracted (no score label, no number in       *)
(* range, no REASON label, no usable text, such as the empty response) it  *)
(* returns exactly (0.0, "No reason provided").                            *)
(***************************************************************************)
\* line 256: the value reason starts with
NoReasonProvided ==
  <<"N","o"," ","r","e","a","s","o","n"," ","p","r","o","v","i","d","e","d">>

\* a text of nothing but whitespace, the empty text included
NothingExtractable(s) == \A i \in 1..Len(s) : IsSpace(s[i])

\* C13: a text always parses, and one with nothing in it parses to the
\* default pair (0.0, "No reason provided")
C13_DefaultOnNothingExtractable ==
  \A p \in Items :
    (/\ Handled(p, 1)
     /\ remote[p][1].kind = "ok"
     /\ ~remote[p][1].null
     /\ ~TitleSliceRaises(papers[p]))
    => /\ tasks[p].st = "done"
       /\ NothingExtractable(remote[p][1].text) =>
            tasks[p].result = [score |-> Zero, reason |-> NoReasonProvided]

(***************************************************************************)
(* C14: the score of _parse_response follows the ordered cascade, first    *)
(* match wins: (a) the number after a case-insensitive SCORE: label; else  *)
(* (b) the number after a case-insensitive score or rating label followed  *)
(* by optional punctuation or whitespace; else (c) the first standalone    *)
(* integer token of the text whose value lies in [0, 10]; else (d) 0.0.    *)
(* "SCORE: 8.5\nREASON: Directly extends prior work." gives 8.5 and        *)
(* "This paper discusses 7 relevant points about transformers." gives 7.0. *)
(***************************************************************************)
IsPunct(c) == c \in {":", ".", ",", ";", "-", "="}

IsSpaceOrPunct(c) == IsSpace(c) \/ IsPunct(c)

IsSpaceOrColon(c) == IsSpace(c) \/ c = ":"

\* the pairs <<i, g>>: one of the labels stands at i, at least `least` filler
\* characters and nothing else follow it, and a number begins at g
Labelled(s, labels, Filler(_), least) ==
  {x \in (1..Len(s)) \X (1..Len(s)) :
     \E l \in labels :
       /\ LitAtCI(s, x[1], l)
       /\ x[2] >= x[1] + Len(l) + least
       /\ IsDigit(s[x[2]])
       /\ \A k \in (x[1] + Len(l))..(x[2] - 1) : Filler(s[k])}

\* the pairs <<i, j>>: s[i..j] is a run of digits with no word character on
\* either side, and it writes a value of at most 10
IntegerTokens(s) ==
  {x \in (1..Len(s)) \X (1..Len(s)) :
     /\ x[1] <= x[2]
     /\ \A k \in x[1]..x[2] : IsDigit(s[k])
     /\ ~WordAt(s, x[1] - 1)
     /\ ~WordAt(s, x[2] + 1)
     /\ DigitsVal(s, x[1], x[2]) <= 10}

\* an integer written without leading zeros
Plain(s, x) == x[1] = x[2] \/ s[x[1]] # "0"

\* the pair of a non-empty set of pairs that begins first
First(S) == CHOOSE x \in S : \A y \in S : x[1] <= y[1]

\* the cascade over what (a), (b) and (c) found
Cascade(s, a, b, c) ==
  IF a # {} THEN FloatOf(s, First(a)[2], NumberEnd(s, First(a)[2]))
  ELSE IF b # {} THEN FloatOf(s, First(b)[2], NumberEnd(s, First(b)[2]))
  ELSE IF c # {} THEN Dec(DigitsVal(s, First(c)[1], First(c)[2]), 1)
  ELSE Zero

\* the cascade as the claim words it
ClaimedScore(s) ==
  Cascade(s, Labelled(s, {LabelScore}, IsSpace, 0),
             Labelled(s, {LabelScoreWord, LabelRating}, IsSpaceOrPunct, 0),
             IntegerTokens(s))

\* the cascade of the amended claim
AmendedScore(s) ==
  Cascade(s, Labelled(s, {LabelScore}, IsSpace, 0),
             Labelled(s, {LabelScoreWord, LabelRating}, IsSpaceOrColon, 1),
             {x \in IntegerTokens(s) : Plain(s, x)})

\* C14: the score of every parsed text is the one the claimed cascade gives
C14_ScoreCascade ==
  \A p \in Items :
    Answered(p) => tasks[p].result.score = ClaimedScore(ContentOf(p))

\* C14 as amended: (b) needs at least one whitespace or colon character
\* between the score or rating label and the number (no other punctuation
\* counts), and (c) takes the first standalone integer written as one of
\* 0, 1, ..., 10, without leading zeros; (a), (d), the order and the two
\* examples are as claimed.
C14_ScoreCascadeAmended ==
  \A p \in Items :
    Answered(p) =>
      /\ tasks[p].result.score = AmendedScore(ContentOf(p))
      /\ ContentOf(p) = TextWellFormed => tasks[p].result.score = Dec(85, 10)
      /\ ContentOf(p) = TextProse => tasks[p].result.score = Dec(7, 1)

C14_Witness ==
  \E p \in Items :
    /\ Answered(p)
    /\ ContentOf(p) = TextTwoLabels
    /\ tasks[p].result.score = Dec(8, 1)

(***************************************************************************)
(* C15: on a verbose engine, for every interleaving of the worker threads, *)
(* sample_count never exceeds 3 and at most 3 sample responses are         *)
(* printed, each with a distinct sample number in 1..3.                    *)
(***************************************************************************)
C15_SampleCounterBounded ==
  /\ sample_count <= SampleMax
  /\ Len(samples) <= SampleMax
  /\ \A i \in 1..Len(samples) : samples[i] \in 1..SampleMax
  /\ \A i, j \in 1..Len(samples) : samples[i] = samples[j] => i = j

(***************************************************************************)
(* C16: a task's backoff sleep suspends only that task: a task in backoff  *)
(* does not hold a concurrency slot that keeps a pending item from         *)
(* beginning, also when max_workers tasks are all in backoff at once.      *)
(***************************************************************************)
Asleep == {p \in Items : tasks[p].st = "backoff"}

\* C16: while a task sleeps in backoff, a pending item can always be started
C16_BackoffHoldsNoSlot ==
  (queue # <<>> /\ Asleep # {}) => \E w \in Workers : CanStart(w)

\* C16 as amended: the backoff sleep suspends only the worker thread of its
\* task.  The sleeping task keeps that thread; while fewer than max_workers
\* tasks are running or asleep, an idle thread can start a pending item; when
\* all max_workers threads are asleep in backoff, no pending item starts
\* until one of them has woken up and finished.
C16_BackoffKeepsItsThread ==
  /\ \A p \in Asleep : \E w \in Workers : worker[w] = p
  /\ (queue # <<>> /\ Cardinality(Running) < max_workers) =>
        \E w \in Workers : CanStart(w)
  /\ Cardinality(Asleep) = max_workers => \A w \in Workers : ~CanStart(w)

C16_Witness ==
  /\ max_workers = MaxWorkers
  /\ Cardinality(Asleep) = max_workers
  /\ queue # <<>>

(***************************************************************************)
(* C17: evaluate_papers dispatches exactly one scoring task per item and   *)
(* collects exactly one outcome per item: no item is skipped or evaluated  *)
(* twice, the outcome attached to an item is the one of its own task, and  *)
(* the progress count advances once per item, so that it equals the number *)
(* of items when evaluate_papers returns.                                  *)
(***************************************************************************)
\* the remote calls made by the tasks of items 1..n
RECURSIVE CallsOf(_)
CallsOf(n) == IF n = 0 THEN 0 ELSE CallsOf(n - 1) + tasks[n].calls

\* the items whose task has been handed to the executor
Dispatched == {p \in Items : tasks[p].st # "unsubmitted"}

\* C17: one task and one collected outcome per item, the item's own result
\* attached, and the progress count equal to the number of items on return
C17_OneTaskOneOutcomePerItem ==
  /\ pbar = Cardinality(collected)
  /\ Len(relevant_papers) <= Cardinality(collected)
  /\ requests = CallsOf(Len(papers))
  /\ \A i, j \in 1..Len(queue) : queue[i] = queue[j] => i = j
  /\ \A p \in Items :
       /\ p \in Queued <=> tasks[p].st = "pending"
       /\ p \in collected => Finished(p)
       /\ papers[p].scored =>
            /\ p \in collected
            /\ tasks[p].st = "done"
            /\ papers[p].relevance_score = tasks[p].result.score
            /\ papers[p].relevance_reason = tasks[p].result.reason
  /\ ~InCall => Dispatched = Items /\ collected = Items
  /\ pc = "returned" => pbar = Len(papers)

(***************************************************************************)
(* C18: provided every remote call returns or fails, every task reaches a  *)
(* terminal outcome after at most 5 remote calls and at most 4 backoff     *)
(* sleeps, never sleeping after its final attempt, and evaluate_papers     *)
(* returns having issued between N and 5N remote calls for N items.  What  *)
(* a finite run can refute of it: the bounds hold at every moment, a run   *)
(* that is over has returned, and it has then made N to 5N calls.          *)
(***************************************************************************)
C18_BoundedWorkThenReturn ==
  /\ \A p \in Items :
       /\ tasks[p].calls <= max_retries
       /\ Len(tasks[p].delays) <= max_retries - 1
       /\ Finished(p) /\ tasks[p].calls > 0 =>
            Len(tasks[p].delays) = tasks[p].calls - 1
  /\ pc # "raised"
  /\ pc = "returned" =>
       /\ \A p \in Items : Finished(p)
       /\ Len(papers) <= requests
       /\ requests <= max_retries * Len(papers)

(***************************************************************************)
(* C19: the sample counter is state of the engine and is never reset: over *)
(* any sequence of runs of evaluate_papers on one verbose engine, once 3   *)
(* samples have been printed no later run prints a sample.                 *)
(***************************************************************************)
C19_NoSampleAfterThree == prior >= SampleMax => Len(samples) = prior

(***************************************************************************)
(* C20: the outcomes of a task form a closed set: _evaluate_single_paper   *)
(* returns the parsed (score, reason) of a successful response,            *)
(* (0.0, "Rate limit exceeded") or (0.0, "Evaluation error"); the trailing *)
(* return of (0.0, "Max retries exceeded") is never reached.               *)
(***************************************************************************)
\* the task of item p has returned one of the three results
ReturnedInSet(p) ==
  /\ tasks[p].st = "done"
  /\ \/ Answered(p) /\ tasks[p].result = ParseResponse(ContentOf(p))
     \/ tasks[p].result = RateLimitResult
     \/ tasks[p].result = EvalErrorResult
  /\ tasks[p].result # MaxRetriesResult

\* C20: every task that has ended has returned one of the three results, and
\* never the result of the trailing return
C20_ClosedOutcomes == \A p \in Items : Finished(p) => ReturnedInSet(p)

====
